---- MODULE Spec2Model ----
(***************************************************************************)
(* SnapmakerGCodeWriter (src/gcode_writer/SnapmakerGCodeWriter.py).        *)
(*                                                                         *)
(* Text is a sequence of tokens.  In a G-code chunk the tokens ";", ":",   *)
(* " " and "\n" are the characters the parser looks at, and every other    *)
(* token stands for a run of characters that holds none of these four (a   *)
(* key such as MINX, a number, the text "Generated with Cura_SteamEngine", *)
(* a G-code word).  A header line the writer makes is a label token        *)
(* followed by the tokens of the formatted value.  A chunk, a header line  *)
(* and a stream write are all token sequences.                             *)
(***************************************************************************)
EXTENDS Integers, Sequences, FiniteSets, TLC

VARIABLES registry, gcode_list, machine_name, extruder_mode, header_version,
          call_mode, call_scene, result, information, stream, formatter,
          process_calls, key_value_pairs, line_count, last_set

vars == <<registry, gcode_list, machine_name, extruder_mode, header_version,
          call_mode, call_scene, result, information, stream, formatter,
          process_calls, key_value_pairs, line_count, last_set>>

-----------------------------------------------------------------------------
(* Bounds of the model *)

\* longest device registry
MaxRegistry == 2

\* last line index after which the chunk list may be cut into two chunks
MaxSplit == 3

-----------------------------------------------------------------------------
(* Tokens *)

SC == ";"
CO == ":"
SP == " "
NL == "\n"

\* the end-of-header sentinel of line 122, as the tokens of its text
SentinelPrefix == <<SC, "Generated with Cura_SteamEngine">>

\* the six keys read at lines 138-139, in the order the code reads them
BBoxKeys == <<"MINX", "MINY", "MINZ", "MAXX", "MAXY", "MAXZ">>

BBoxKeySet == {BBoxKeys[i] : i \in 1..Len(BBoxKeys)}

Range(s) == {s[i] : i \in 1..Len(s)}

RECURSIVE Flatten(_)
Flatten(ss) == IF ss = <<>> THEN <<>> ELSE Head(ss) \o Flatten(Tail(ss))

-----------------------------------------------------------------------------
(* str methods used by the parser *)

\* str.split('\n')
RECURSIVE SplitFrom(_, _, _)
SplitFrom(text, i, cur) ==
    IF i > Len(text) THEN <<cur>>
    ELSE IF text[i] = NL THEN <<cur>> \o SplitFrom(text, i + 1, <<>>)
    ELSE SplitFrom(text, i + 1, Append(cur, text[i]))

Split(text) == SplitFrom(text, 1, <<>>)

\* str.startswith
StartsWith(line, prefix) ==
    /\ Len(line) >= Len(prefix)
    /\ SubSeq(line, 1, Len(prefix)) = prefix

\* str.strip(): whitespace is removed from both ends
RECURSIVE LStrip(_)
LStrip(s) == IF s # <<>> /\ Head(s) = SP THEN LStrip(Tail(s)) ELSE s

RECURSIVE RStrip(_)
RStrip(s) ==
    IF s # <<>> /\ s[Len(s)] = SP THEN RStrip(SubSeq(s, 1, Len(s) - 1)) ELSE s

Strip(s) == RStrip(LStrip(s))

\* index of the first ':' of a text that holds one
FirstColon(s) ==
    CHOOSE i \in 1..Len(s) : s[i] = CO /\ \A j \in 1..(i - 1) : s[j] # CO

\* str.split(":", 1) of a text that holds a ':'
SplitColon(s) ==
    <<SubSeq(s, 1, FirstColon(s) - 1), SubSeq(s, FirstColon(s) + 1, Len(s))>>

\* float(): the number of a numeric text, ValueError for any other text
IsFloat(value) == value \in {<<"0">>, <<"1">>}

Float(value) == IF value = <<"1">> THEN 1 ELSE 0

\* "{}".format of a float
FloatStr(x) == IF x = 1 THEN "1.0" ELSE "0.0"

-----------------------------------------------------------------------------
(* __parseOriginalGCode *)

\* key_value_pairs is a dict, modelled as a set of <<key, value>> pairs with
\* at most one pair for a key
HasKey(kv, key) == \E p \in kv : p[1] = key

Get(kv, key) == (CHOOSE p \in kv : p[1] = key)[2]

\* key_value_pairs[key] = value
Put(kv, key, value) == {p \in kv : p[1] # key} \cup {<<key, value>>}

\* lines 127-129: the key and the value taken from a header line
LineKey(line) == SplitColon(Strip(Tail(line)))[1]

\* LineValue without line 129: the value keeps the whitespace after the ':'
LineValueUnstripped(line) == SplitColon(Strip(Tail(line)))[2]

LineValue(line) == Strip(SplitColon(Strip(Tail(line)))[2])

\* ScanLines without line 123: the sentinel line ends the scan of its chunk
\* and leaves check_header_line set
RECURSIVE ScanLinesFlagKept(_, _, _)
ScanLinesFlagKept(lines, i, kv) ==
    IF i > Len(lines) THEN [kv |-> kv, check |-> TRUE]
    ELSE IF StartsWith(lines[i], SentinelPrefix)
         THEN [kv |-> kv, check |-> TRUE]
    ELSE IF StartsWith(lines[i], <<SC>>) /\ CO \in Range(lines[i])
         THEN ScanLinesFlagKept(lines, i + 1,
                  Put(kv, SplitColon(Strip(Tail(lines[i])))[1],
                          Strip(SplitColon(Strip(Tail(lines[i])))[2])))
    ELSE ScanLinesFlagKept(lines, i + 1, kv)

\* lines 121-131: the scan of the lines of one chunk; check is the value
\* check_header_line has after the loop
RECURSIVE ScanLines(_, _, _)
ScanLines(lines, i, kv) ==
    IF i > Len(lines) THEN [kv |-> kv, check |-> TRUE]
    ELSE IF StartsWith(lines[i], SentinelPrefix)
         THEN [kv |-> kv, check |-> FALSE]
    ELSE IF StartsWith(lines[i], <<SC>>) /\ CO \in Range(lines[i])
         THEN ScanLines(lines, i + 1,
                        Put(kv, LineKey(lines[i]), LineValue(lines[i])))
    ELSE ScanLines(lines, i + 1, kv)

\* line 118
CountLines(lines) == Len(lines) - 1

\* lines 116-131: the loop over the chunks
RECURSIVE ParseLoop(_, _, _, _, _)
ParseLoop(list, g, check, count, kv) ==
    IF g > Len(list) THEN [kv |-> kv, line_count |-> count]
    ELSE LET lines == Split(list[g])
             scan == ScanLines(lines, 1, kv)
         IN  IF check
             THEN ParseLoop(list, g + 1, scan.check,
                            count + CountLines(lines), scan.kv)
             ELSE ParseLoop(list, g + 1, check, count + CountLines(lines), kv)

\* lines 137-140: the six float(key_value_pairs[...]) calls, evaluated in
\* order; the first one that fails decides the exception
RECURSIVE BBoxArgs(_, _)
BBoxArgs(kv, i) ==
    IF i > Len(BBoxKeys) THEN "none"
    ELSE IF ~HasKey(kv, <<BBoxKeys[i]>>) THEN "KeyError"
    ELSE IF ~IsFloat(Get(kv, <<BBoxKeys[i]>>)) THEN "ValueError"
    ELSE BBoxArgs(kv, i + 1)

Min(a, b) == IF a < b THEN a ELSE b

Max(a, b) == IF a > b THEN a ELSE b

\* Vector.Null
NullVector == <<0, 0, 0>>

\* UM's AxisAlignedBox(minimum, maximum), built at lines 26 and 137: the
\* corners are swapped componentwise when one component of minimum is above
\* the one of maximum
AxisAlignedBox(minimum, maximum) ==
    IF \E c \in 1..3 : minimum[c] > maximum[c]
    THEN [minimum |-> [c \in 1..3 |-> Min(minimum[c], maximum[c])],
          maximum |-> [c \in 1..3 |-> Max(minimum[c], maximum[c])]]
    ELSE [minimum |-> minimum, maximum |-> maximum]

\* UM's AxisAlignedBox.isValid, called at lines 210 and 302: the two corners
\* differ
IsValid(bbox) == bbox.minimum # bbox.maximum

\* lines 111-143: exc is the exception the call raises ("none": it returns),
\* bbox and line_count are the fields of the GCodeInfo it returns, kv is
\* key_value_pairs and line_count the local of that name after the loop
ParseOriginalGCode(list) ==
    LET loop == ParseLoop(list, 1, TRUE, 0, {})
        kv == loop.kv
        exc == IF HasKey(kv, <<"MINX">>) THEN BBoxArgs(kv, 1) ELSE "none"
    IN  [exc |-> exc,
         kv |-> kv,
         line_count |-> loop.line_count,
         bbox |-> IF HasKey(kv, <<"MINX">>) /\ exc = "none"
                  THEN AxisAlignedBox(
                         <<Float(Get(kv, <<"MINX">>)), Float(Get(kv, <<"MINY">>)),
                           Float(Get(kv, <<"MINZ">>))>>,
                         <<Float(Get(kv, <<"MAXX">>)), Float(Get(kv, <<"MAXY">>)),
                           Float(Get(kv, <<"MAXZ">>))>>)
                  ELSE AxisAlignedBox(NullVector, NullVector)]

-----------------------------------------------------------------------------
(* Values read from the host application *)

\* int(print_info.currentPrintTime), and its "{:.02f}" form
EstimatedTime == "6183"

EstimatedTimeLegacy == "6183.00"

\* global_stack.extruderList, as the positions of the extruders
ExtruderList == <<0, 1>>

\* material_bed_temperature_layer_0 of the global stack
BedTemperature == "60"

\* len(extruders_used) of lines 199-208
ExtrudersUsed == "2"

\* "{:.0f}" of the active extruder's material_print_temperature,
\* material_bed_temperature and speed_infill (lines 263-265)
PrintTempLegacy == "200"

BedTempLegacy == "60"

PrintSpeedLegacy == "50"

\* what __generateThumbnail may return: "" or a data URI
Thumbnails == {"", "data:image/png;base64,iVBORw0KGgo="}

-----------------------------------------------------------------------------
(* The formatters *)

\* "\n".join(headers)
RECURSIVE Join(_)
Join(lines) ==
    IF lines = <<>> THEN <<>>
    ELSE IF Len(lines) = 1 THEN lines[1]
    ELSE lines[1] \o <<NL>> \o Join(Tail(lines))

\* "...{}".format(value): nothing is added for an empty value
Fmt(label, value) == IF value = "" THEN <<label>> ELSE <<label, value>>

\* lines 190-194 and 296-300: the five lines of one extruder
ExtruderLines(position) ==
    << <<";Extruder ", ToString(position), " Nozzle Size:", "0.4">>,
       <<";Extruder ", ToString(position), " Material:", "PLA">>,
       <<";Extruder ", ToString(position), " Print Temperature:", "200">>,
       <<";Extruder ", ToString(position), " Retraction Distance:", "0.8">>,
       <<";Extruder ", ToString(position), " Switch Retraction Distance:", "16">> >>

\* lines 181-194 and 287-300: the loop over extruderList
RECURSIVE ExtruderBlock(_)
ExtruderBlock(extruders) ==
    IF extruders = <<>> THEN <<>>
    ELSE ExtruderLines(Head(extruders)) \o ExtruderBlock(Tail(extruders))

\* the labels of the six lines of lines 213-218
WorkRangeLabels ==
    <<";Work Range - Min X:", ";Work Range - Min Y:", ";Work Range - Min Z:",
      ";Work Range - Max X:", ";Work Range - Max Y:", ";Work Range - Max Z:">>

\* the labels of the six lines of lines 305-310
LegacyRangeLabels ==
    <<";min_x(mm): ", ";min_y(mm): ", ";min_z(mm): ",
      ";max_x(mm): ", ";max_y(mm): ", ";max_z(mm): ">>

\* lines 210-219 and 302-311: the six lines of a box
BBoxLines(labels, bbox) ==
    [i \in 1..6 |->
        <<labels[i], FloatStr(IF i <= 3 THEN bbox.minimum[i]
                                         ELSE bbox.maximum[i - 3])>>]

\* gcode_info.line_count if gcode_info else 0 (gcode_info is None after a
\* KeyError)
InfoLineCount(parsed) == IF parsed.exc = "none" THEN parsed.line_count ELSE 0

\* gcode_info and gcode_info.bbox.isValid()
InfoHasBox(parsed) == parsed.exc = "none" /\ IsValid(parsed.bbox)

\* line 178 with the default mode in the place of self._extruder_mode
ExtruderModeLineDefault(mode) == Fmt(";Extruder Mode:", "Normal")

\* line 178
ExtruderModeLine(mode) == Fmt(";Extruder Mode:", mode)

\* lines 171-225: the header lines of the V1 formatter
HeadersV1(parsed, name, mode, thumbnail) ==
    << <<";Header Start">>,
       <<";Version:1">>,
       <<";Slicer:CuraEngine">>,
       Fmt(";Printer:", name),
       Fmt(";Estimated Print Time:", EstimatedTime),
       Fmt(";Lines:", ToString(InfoLineCount(parsed))),
       ExtruderModeLine(mode) >>
    \o ExtruderBlock(ExtruderList)
    \o << Fmt(";Bed Temperature:", BedTemperature),
          Fmt(";Extruder(s) Used:", ExtrudersUsed) >>
    \o (IF InfoHasBox(parsed) THEN BBoxLines(WorkRangeLabels, parsed.bbox)
        ELSE <<>>)
    \o << Fmt(";Thumbnail:", thumbnail),
          <<";Header End">>,
          <<>> >>

\* lines 267-317: the header lines of the legacy formatter (the labels of
\* the two temperatures are written without their degree sign)
HeadersLegacy(parsed, name, thumbnail) ==
    << <<";Header Start">>,
       <<";header_type: 3dp">>,
       Fmt(";file_total_lines: ", ToString(InfoLineCount(parsed))),
       Fmt(";estimated_time(s): ", EstimatedTimeLegacy),
       Fmt(";nozzle_temperature(C): ", PrintTempLegacy),
       Fmt(";build_plate_temperature(C): ", BedTempLegacy),
       Fmt(";work_speed(mm/minute): ", PrintSpeedLegacy),
       Fmt(";Printer:", name) >>
    \o ExtruderBlock(ExtruderList)
    \o (IF InfoHasBox(parsed) THEN BBoxLines(LegacyRangeLabels, parsed.bbox)
        ELSE <<>>)
    \o << Fmt(";thumbnail: ", thumbnail),
          <<";Header End">>,
          <<>> >>

\* what a formatter hands back: the exception it raises ("none": it
\* returns), its stream.write calls in order, and the parser's locals
Outcome(exc, writes, parsed) ==
    [exc |-> exc, writes |-> writes, kv |-> parsed.kv,
     line_count |-> parsed.line_count]

\* the chunks written before the header
StreamWritesBodyFirst(headers, list) == list \o <<Join(headers)>>

\* lines 227-230 and 319-322: the stream.write calls, in order
StreamWrites(headers, list) == <<Join(headers)>> \o list

\* lines 156-230: a KeyError of the parser is caught, any other exception
\* leaves the method before its first stream.write
ProcessGCodeListV1(list, name, mode, thumbnail) ==
    LET parsed == ParseOriginalGCode(list)
    IN  IF parsed.exc = "ValueError" THEN Outcome("ValueError", <<>>, parsed)
        ELSE Outcome("none",
                     StreamWrites(HeadersV1(parsed, name, mode, thumbnail), list),
                     parsed)

\* lines 249-322
ProcessGCodeListLegacy(list, name, thumbnail) ==
    LET parsed == ParseOriginalGCode(list)
    IN  IF parsed.exc = "ValueError" THEN Outcome("ValueError", <<>>, parsed)
        ELSE Outcome("none",
                     StreamWrites(HeadersLegacy(parsed, name, thumbnail), list),
                     parsed)

\* lines 324-326: the parser is not called
ProcessGCodeListTransparent(list) ==
    Outcome("none", list, [kv |-> {}, line_count |-> 0])

-----------------------------------------------------------------------------
(* __detectHeaderVersion and processGCodeList *)

\* a profile of SNAPMAKER_DISCOVER_MACHINES: its name, whether it has a
\* 'header_version' entry, and that entry
Profile(name, declares, version) ==
    [name |-> name, declares |-> declares, header_version |-> version]

\* lines 50-52: the value of `machine` after the loop over a registry that
\* is not empty; the loop has no else, so without a match it ends on the
\* last profile
RECURSIVE LoopMachine(_, _, _)
LoopMachine(machines, name, i) ==
    IF machines[i].name = name \/ i = Len(machines) THEN machines[i]
    ELSE LoopMachine(machines, name, i + 1)

\* the truth value of a dict
Truthy(machine) == DOMAIN machine # {}

\* machine.get('header_version', 1)
GetHeaderVersion(machine) ==
    IF machine.declares THEN machine.header_version ELSE 1

\* line 54
DetectHeaderVersion(machines, name) ==
    IF Truthy(LoopMachine(machines, name, 1))
    THEN GetHeaderVersion(LoopMachine(machines, name, 1))
    ELSE -1

\* lines 148-154
Dispatch(version, list, name, mode, thumbnail) ==
    IF version = 1
    THEN [formatter |-> "V1"] @@ ProcessGCodeListV1(list, name, mode, thumbnail)
    ELSE IF version = 0
    THEN [formatter |-> "Legacy"] @@ ProcessGCodeListLegacy(list, name, thumbnail)
    ELSE [formatter |-> "Transparent"] @@ ProcessGCodeListTransparent(list)

\* processGCodeList with the dispatch on the version of the earlier call
ProcessGCodeListStale(self_version, list, machines, name, mode, thumbnail) ==
    [header_version |-> DetectHeaderVersion(machines, name)]
    @@ Dispatch(self_version, list, name, mode, thumbnail)

\* lines 145-154; self_version is self._header_version before the call
ProcessGCodeList(self_version, list, machines, name, mode, thumbnail) ==
    [header_version |-> DetectHeaderVersion(machines, name)]
    @@ Dispatch(DetectHeaderVersion(machines, name), list, name, mode, thumbnail)

-----------------------------------------------------------------------------
(* The G-code lists and the registries the model is run on *)

\* a header line ;KEY:VALUE with no whitespace ("none"), with whitespace
\* before the key and around the value ("lead"), or around both ("all")
KeyLine(key, value, pad) ==
    IF pad = "none" THEN <<SC, key, CO, value>>
    ELSE IF pad = "lead" THEN <<SC, SP, key, CO, SP, value, SP>>
    ELSE <<SC, SP, key, SP, CO, SP, value, SP>>

\* the value written for a key: malformed text for the key p.bad
KeyValue(p, i) ==
    IF BBoxKeys[i] = p.bad THEN "x" ELSE IF i <= 3 THEN p.minv ELSE p.maxv

\* the lines of the keys of p.present, in the order of BBoxKeys
RECURSIVE KeyLines(_, _)
KeyLines(p, i) ==
    IF i > Len(BBoxKeys) THEN <<>>
    ELSE (IF BBoxKeys[i] \in p.present
          THEN <<KeyLine(BBoxKeys[i], KeyValue(p, i), p.pad)>> ELSE <<>>)
         \o KeyLines(p, i + 1)

\* the lines of a G-code text: the sentinel line before or after the keys
\* or nowhere, an earlier MINX line with another value when p.dup, and two
\* lines of body
GenLines(p) ==
    (IF p.sent = "first" THEN <<SentinelPrefix>> ELSE <<>>)
    \o (IF p.dup THEN <<KeyLine("MINX", "x", "none")>> ELSE <<>>)
    \o KeyLines(p, 1)
    \o (IF p.sent = "last" THEN <<SentinelPrefix>> ELSE <<>>)
    \o << <<SC, "LAYER", CO, "0">>, <<"G1", SP, "X10">> >>

\* the text of lines k..m, each ended by a newline; the last line of the
\* whole text has one only when nl
RECURSIVE LinesText(_, _, _, _)
LinesText(lines, k, m, nl) ==
    IF k > m THEN <<>>
    ELSE lines[k] \o (IF k < Len(lines) \/ nl THEN <<NL>> ELSE <<>>)
         \o LinesText(lines, k + 1, m, nl)

\* the chunk list: one chunk, or two chunks cut after line p.split
GenList(p) ==
    IF p.split = 0
    THEN <<LinesText(GenLines(p), 1, Len(GenLines(p)), p.nl)>>
    ELSE <<LinesText(GenLines(p), 1, Min(p.split, Len(GenLines(p))), p.nl),
           LinesText(GenLines(p), Min(p.split, Len(GenLines(p))) + 1,
                     Len(GenLines(p)), p.nl)>>

Params(present, bad, minv, maxv, pad, sent, dup, split, nl) ==
    [present |-> present, bad |-> bad, minv |-> minv, maxv |-> maxv,
     pad |-> pad, sent |-> sent, dup |-> dup, split |-> split, nl |-> nl]

\* every subset of the six keys, with at most one malformed value
FormatParams ==
    {Params(present, bad, "0", "1", "none", "last", FALSE, 0, TRUE) :
        present \in SUBSET BBoxKeySet, bad \in BBoxKeySet \cup {"none"}}

\* all six keys, well-formed, with boxes that are empty or upside down
BoxParams ==
    {Params(BBoxKeySet, "none", v[1], v[2], "none", "last", FALSE, 0, TRUE) :
        v \in {<<"0", "0">>, <<"1", "1">>, <<"1", "0">>}}

\* whitespace around the key and the value, and a key met twice
WhitespaceParams ==
    {Params(present, "none", "0", "1", pad, "last", dup, 0, TRUE) :
        present \in {{"MINX"}, BBoxKeySet},
        pad \in {"none", "lead", "all"}, dup \in BOOLEAN}

\* the place of the sentinel line and of the cut between the chunks
SentinelParams ==
    {Params(BBoxKeySet, "none", "0", "1", "none", sent, FALSE, split, nl) :
        sent \in {"none", "first", "last"},
        split \in 0..MaxSplit, nl \in BOOLEAN}

FewParams ==
    {Params(BBoxKeySet, bad, "0", "1", "none", "last", FALSE, 1, TRUE) :
        bad \in {"none", "MAXZ"}}

\* names of registry profiles
RegistryNames ==
    <<"Snapmaker J1", "Snapmaker Artisan", "Snapmaker A350", "Snapmaker A250">>

\* a profile declares no header_version, or 0, 1 or another one
ProfileKinds == {<<FALSE, 0>>, <<TRUE, 0>>, <<TRUE, 1>>, <<TRUE, 2>>}

\* the registries: up to MaxRegistry profiles of different names
Registries ==
    UNION {{[i \in 1..n |-> Profile(RegistryNames[i], k[i][1], k[i][2])] :
              k \in [1..n -> ProfileKinds]} : n \in 1..MaxRegistry}

\* a registry with a V1 profile and a legacy profile
DefaultRegistry ==
    <<Profile(RegistryNames[1], FALSE, 0), Profile(RegistryNames[2], TRUE, 0)>>

\* the device names of the host: the registry names and one more
MachineNames ==
    {RegistryNames[i] : i \in 1..MaxRegistry} \cup {"Creality Ender 3"}

\* the arguments of setExtruderMode
ExtruderModes == {"Normal", "Mirror"}

\* FileWriter.OutputMode
OutputModes == {"TextMode", "BinaryMode"}

\* the scene has no gcode_dict, a gcode_dict without the active build
\* plate, or one with it
Scenes == {"no_gcode_dict", "no_entry", "entry"}

-----------------------------------------------------------------------------
(* The writer *)

\* lines 37-41, with a host that has sliced gcode_list
Init ==
    /\ \/ /\ registry = DefaultRegistry
          /\ \E p \in FormatParams \cup BoxParams \cup WhitespaceParams
                        \cup SentinelParams :
                gcode_list = GenList(p)
       \/ /\ registry \in Registries
          /\ \E p \in FewParams : gcode_list = GenList(p)
    /\ machine_name = "none"
    /\ extruder_mode = "Normal"
    /\ header_version = 1
    /\ call_mode = "none"
    /\ call_scene = "none"
    /\ result = "none"
    /\ information = ""
    /\ stream = <<>>
    /\ formatter = "none"
    /\ process_calls = 0
    /\ key_value_pairs = {}
    /\ line_count = 0
    /\ last_set = "none"

\* lines 43-44
SetExtruderMode(mode) ==
    /\ extruder_mode' = mode
    /\ last_set' = mode
    /\ UNCHANGED <<registry, gcode_list, machine_name, header_version,
                   call_mode, call_scene, result, information, stream,
                   formatter, process_calls, key_value_pairs, line_count>>

\* lines 62-65 and 69-71, 79-80: write returns False
WriteFails(message) ==
    /\ result' = "False"
    /\ information' = message
    /\ stream' = <<>>
    /\ formatter' = "none"
    /\ process_calls' = 0
    /\ key_value_pairs' = {}
    /\ line_count' = 0
    /\ UNCHANGED <<header_version, machine_name>>

\* lines 73-77: write calls processGCodeList and returns True, or the
\* exception of processGCodeList leaves write
WriteProcesses(name, r) ==
    /\ machine_name' = name
    /\ result' = IF r.exc = "none" THEN "True" ELSE r.exc
    /\ UNCHANGED information
    /\ stream' = r.writes
    /\ formatter' = r.formatter
    /\ process_calls' = 1
    /\ key_value_pairs' = r.kv
    /\ line_count' = r.line_count
    /\ header_version' = r.header_version

\* lines 56-80: one call of write on a fresh stream, with the host's scene
\* and active machine at the call; stream holds the stream.write calls of
\* the call, result what the call returns or raises, machine_name the
\* name read at line 48; the thumbnail is what __generateThumbnail returns
\* at line 221 or 313
Write(mode, scene, name) ==
    /\ call_mode' = mode
    /\ call_scene' = scene
    /\ IF mode # "TextMode"
       THEN WriteFails("GCodeWriter does not support non-text mode.")
       ELSE IF scene = "no_gcode_dict"
       THEN WriteFails("Please prepare G-code before exporting.")
       ELSE IF scene = "entry"
       THEN \E thumbnail \in Thumbnails :
               WriteProcesses(name, ProcessGCodeList(header_version, gcode_list,
                                        registry, name, extruder_mode,
                                        thumbnail))
       ELSE WriteFails("Please prepare G-code before exporting.")
    /\ UNCHANGED <<registry, gcode_list, extruder_mode, last_set>>

Next ==
    \/ \E mode \in ExtruderModes : SetExtruderMode(mode)
    \/ \E mode \in OutputModes, scene \in Scenes, name \in MachineNames :
          Write(mode, scene, name)

Spec == Init /\ [][Next]_vars

-----------------------------------------------------------------------------
(* What the claims speak of *)

\* the number of newline characters of all chunks
NewlineCount(list) ==
    Cardinality({c \in (1..Len(list)) \X (1..Len(Flatten(list))) :
                    c[2] <= Len(list[c[1]]) /\ list[c[1]][c[2]] = NL})

\* processGCodeList was called by the last write
Processed == process_calls = 1

\* the last write ran a formatter that parses the list
Parsed == Processed /\ formatter \in {"V1", "Legacy"}

\* the last write ran a formatter that parses, and the formatter returned
Completed == Parsed /\ result = "True"

\* the text has the line label + value
HasLine(text, label, value) ==
    \E i \in 1..(Len(text) - 1) : text[i] = label /\ text[i + 1] = value

EndsWith(text, suffix) ==
    /\ Len(text) >= Len(suffix)
    /\ SubSeq(text, Len(text) - Len(suffix) + 1, Len(text)) = suffix

\* the labels of the bounding-box lines of both formatters
RangeLabels == Range(WorkRangeLabels) \cup Range(LegacyRangeLabels)

\* some stream write holds a bounding-box line
HasRangeLine == \E w \in 1..Len(stream) : Range(stream[w]) \cap RangeLabels # {}

\* the stream holds a whole header, with no bounding-box line, and then
\* the chunks of the list
HeaderAndBody ==
    /\ Len(stream) = Len(gcode_list) + 1
    /\ StartsWith(stream[1], <<";Header Start", NL>>)
    /\ EndsWith(stream[1], <<";Header End", NL>>)
    /\ SubSeq(stream, 2, Len(stream)) = gcode_list

\* the key k was recorded from the header
Recorded(k) == \E p \in key_value_pairs : p[1] = <<k>>

\* all lines of all chunks, in order
AllLines(list) == Flatten([g \in 1..Len(list) |-> Split(list[g])])

\* the lines met before the first sentinel line
HeaderLines(list) ==
    LET all == AllLines(list)
        ends == {i \in 1..Len(all) : StartsWith(all[i], SentinelPrefix)}
    IN  IF ends = {} THEN all
        ELSE SubSeq(all, 1, (CHOOSE i \in ends : \A j \in ends : i <= j) - 1)

\* a line of the form ;KEY:VALUE
IsKeyValue(line) == Len(line) > 0 /\ line[1] = SC /\ CO \in Range(line)

\* the text between the ';' and the first ':', and the text after the ':'
RawKey(line) == SubSeq(line, 2, FirstColon(line) - 1)

RawValue(line) == SubSeq(line, FirstColon(line) + 1, Len(line))

\* the profile of the registry the device name matches, if any
Matches(i) == i \in 1..Len(registry) /\ registry[i].name = machine_name

\* the formatter a profile asks for
FormatterOf(profile) ==
    IF ~profile.declares \/ profile.header_version = 1 THEN "V1"
    ELSE IF profile.header_version = 0 THEN "Legacy"
    ELSE "Transparent"

\* a step of write, as opposed to one of setExtruderMode
IsWriteStep ==
    <<call_mode, call_scene, result, information, stream, formatter,
      process_calls, key_value_pairs, line_count, header_version,
      machine_name>>' #
    <<call_mode, call_scene, result, information, stream, formatter,
      process_calls, key_value_pairs, line_count, header_version,
      machine_name>>

-----------------------------------------------------------------------------
(* The claims *)

\* C1: for a device name that matches no registry entry, processGCodeList
\* resolves the version -1, runs the transparent formatter and writes exactly
\* the chunks, with no header.
C1_UnmatchedIsTransparent ==
    (Processed /\ ~\E i \in 1..Len(registry) : Matches(i))
    => /\ header_version = -1
       /\ formatter = "Transparent"
       /\ result = "True"
       /\ Flatten(stream) = Flatten(gcode_list)

\* C2: the line count the V1 formatter (;Lines:) and the legacy formatter
\* (;file_total_lines:) emit is the number of newline characters of all
\* chunks, whatever the header holds.
C2_LineCountIsNewlineCount ==
    Completed
    => HasLine(stream[1],
               IF formatter = "V1" THEN ";Lines:" ELSE ";file_total_lines: ",
               ToString(NewlineCount(gcode_list)))

\* C3: when the header holds MINX and one of the six values is malformed,
\* the formatter catches the failure: write raises nothing and the stream
\* gets a whole header without bounding-box lines and then the body.
C3_MalformedIsCaught ==
    (Parsed /\ Recorded("MINX")
       /\ \E p \in key_value_pairs :
             p[1] \in {<<k>> : k \in BBoxKeySet} /\ ~IsFloat(p[2]))
    => result = "True" /\ HeaderAndBody /\ ~HasRangeLine

\* C4: write returns True and calls processGCodeList once exactly when the
\* mode is text mode and the scene has a list for the active build plate;
\* in every other case it returns False, sets a message, raises nothing and
\* writes nothing.
C4_WriteReturnsTrueIffPrepared ==
    result # "none"
    => /\ (result = "True" /\ process_calls = 1)
            <=> (call_mode = "TextMode" /\ call_scene = "entry")
       /\ ~(call_mode = "TextMode" /\ call_scene = "entry")
            => /\ result = "False"
               /\ information # ""
               /\ process_calls = 0
               /\ stream = <<>>

\* C5: the six bounding-box lines are emitted only if all six keys were
\* recorded; when one of the six is missing none of the six lines appears
\* and the rest of the header and the body are still written.
C5_BoxOnlyWithAllSixKeys ==
    Parsed
    => /\ HasRangeLine => \A k \in BBoxKeySet : Recorded(k)
       /\ (\E k \in BBoxKeySet : ~Recorded(k))
            => result = "True" /\ HeaderAndBody /\ ~HasRangeLine

\* C6: when the V1 or the legacy formatter completes, the stream holds one
\* header block, from ;Header Start to ;Header End and a newline, written in
\* one write, and then every chunk, unchanged and in order; when it does not
\* complete, nothing was written.
C6_HeaderThenBody ==
    Parsed
    => IF result = "True"
       THEN /\ Len(stream) = Len(gcode_list) + 1
            /\ StartsWith(stream[1], <<";Header Start", NL>>)
            /\ EndsWith(stream[1], <<";Header End", NL>>)
            /\ Cardinality({i \in 1..Len(stream[1]) :
                               stream[1][i] = ";Header Start"}) = 1
            /\ Cardinality({i \in 1..Len(stream[1]) :
                               stream[1][i] = ";Header End"}) = 1
            /\ \A g \in 1..Len(gcode_list) : stream[g + 1] = gcode_list[g]
       ELSE stream = <<>>

C6_Witness ==
    /\ Completed
    /\ Len(gcode_list) = 2
    /\ gcode_list[2] # <<>>
    /\ HasRangeLine

\* C7 as claimed: a line ;KEY:VALUE scanned before the sentinel is recorded
\* with the key and the value both trimmed of the whitespace around them,
\* and the last line of a key gives its value.
C7_KeyAndValueTrimmed ==
    Parsed
    => LET lines == HeaderLines(gcode_list)
       IN  \A i \in 1..Len(lines) :
              (/\ IsKeyValue(lines[i])
               /\ ~\E j \in (i + 1)..Len(lines) :
                      /\ IsKeyValue(lines[j])
                      /\ Strip(RawKey(lines[j])) = Strip(RawKey(lines[i])))
              => <<Strip(RawKey(lines[i])), Strip(RawValue(lines[i]))>>
                    \in key_value_pairs

\* C7, amended: a line ;KEY:VALUE scanned before the sentinel is recorded
\* with the value trimmed on both sides and the key trimmed on the left only
\* (whitespace between the key and the ':' stays in the key), and the last
\* line of a recorded key gives its value.
C7_KeyLeftTrimmed ==
    Parsed
    => LET lines == HeaderLines(gcode_list)
       IN  \A i \in 1..Len(lines) :
              (/\ IsKeyValue(lines[i])
               /\ ~\E j \in (i + 1)..Len(lines) :
                      /\ IsKeyValue(lines[j])
                      /\ LStrip(RawKey(lines[j])) = LStrip(RawKey(lines[i])))
              => <<LStrip(RawKey(lines[i])), Strip(RawValue(lines[i]))>>
                    \in key_value_pairs

C7_Witness ==
    /\ Parsed
    /\ Len(HeaderLines(gcode_list)) >= 2
    /\ HeaderLines(gcode_list)[1] = <<SC, "MINX", CO, "x">>
    /\ HeaderLines(gcode_list)[2] = <<SC, SP, "MINX", CO, SP, "0", SP>>
    /\ <<(<<"MINX">>), (<<"0">>)>> \in key_value_pairs

\* C8: nothing that comes after the first sentinel line, in its chunk or in
\* a later one, is recorded (every recorded pair comes from a line before
\* it, and bounding-box keys after it give no bounding-box lines), and the
\* lines of every chunk are counted.
C8_NothingAfterSentinel ==
    Parsed
    => LET lines == HeaderLines(gcode_list)
       IN  /\ \A p \in key_value_pairs :
                 \E i \in 1..Len(lines) :
                    /\ IsKeyValue(lines[i])
                    /\ p[1] = LStrip(RawKey(lines[i]))
                    /\ p[2] = Strip(RawValue(lines[i]))
           /\ line_count = NewlineCount(gcode_list)
           /\ (~\E i \in 1..Len(lines) : "MINX" \in Range(lines[i]))
                 => ~HasRangeLine

C8_Witness ==
    /\ Completed
    /\ Len(gcode_list) = 2
    /\ StartsWith(gcode_list[1], SentinelPrefix)
    /\ "MINX" \in Range(gcode_list[1])
    /\ "MAXZ" \in Range(gcode_list[2])
    /\ key_value_pairs = {}
    /\ line_count = NewlineCount(gcode_list)
    /\ line_count > Len(Split(gcode_list[1])) - 1

\* C9: every call of processGCodeList resolves the version from the device
\* name of that call and runs one formatter: for a device that matches a
\* profile, V1 when the profile declares 1 or nothing, legacy when it
\* declares 0, transparent for another value, whatever an earlier write
\* resolved.
C9_FormatterOfActiveDevice ==
    Processed
    => /\ formatter \in {"V1", "Legacy", "Transparent"}
       /\ formatter = "V1" <=> header_version = 1
       /\ formatter = "Legacy" <=> header_version = 0
       /\ \A i \in 1..Len(registry) :
             Matches(i)
             => /\ formatter = FormatterOf(registry[i])
                /\ result = "True"
                     => CASE formatter = "V1" ->
                               ";Version:1" \in Range(stream[1])
                          [] formatter = "Legacy" ->
                               ";header_type: 3dp" \in Range(stream[1])
                          [] OTHER -> stream = gcode_list

C9_Witness ==
    /\ Processed
    /\ Matches(2)
    /\ registry[1].declares /\ registry[1].header_version = 0
    /\ ~registry[2].declares
    /\ formatter = "V1"
    /\ result = "True"

\* C10: the ;Extruder Mode: line of a V1 header carries the argument of the
\* last setExtruderMode call before the write, or Normal if there was none;
\* a write does not change the stored mode; the legacy and the transparent
\* output have no such line.
C10_ExtruderModeOfLastSet ==
    [][/\ extruder_mode' = IF last_set' = "none" THEN "Normal" ELSE last_set'
       /\ IsWriteStep
            => /\ extruder_mode' = extruder_mode
               /\ (result' = "True" /\ formatter' = "V1")
                    => HasLine(stream'[1], ";Extruder Mode:",
                               IF last_set = "none" THEN "Normal" ELSE last_set)
               /\ (result' = "True" /\ formatter' \in {"Legacy", "Transparent"})
                    => ";Extruder Mode:" \notin Range(Flatten(stream'))]_vars

C10_Witness ==
    /\ Completed
    /\ formatter = "V1"
    /\ last_set = "Mirror"
    /\ HasLine(stream[1], ";Extruder Mode:", "Mirror")

====
